---- MODULE Spec2Model ----
(***************************************************************************)
(* State-machine model of packages/demo/notebook.py, a marimo notebook     *)
(* that loads a readout table and renders box plots of tissue, cell and    *)
(* neighborhood statistics.  Python strings are TLA+ strings; TLC          *)
(* evaluates Len, Head, Tail, SubSeq and \o on them character by character.*)
(***************************************************************************)
EXTENDS Integers, Sequences, FiniteSets, TLC

VARIABLES
    cli_print,   \* mo.cli_args().get("print"): "None" when the flag is absent
    rows,        \* the slide of every data row of the CSV at readouts_path
    missing,     \* column names the CSV does not have (it has every other)
    pc,          \* the cell marimo runs next
    print_mode,  \* the name print_mode of the first cell ("None": not bound yet)
    df,          \* the name df: [loaded |-> BOOLEAN, rows |-> the table's rows]
    plot_index,  \* the global plot_index (0: not bound yet)
    k,           \* position of the running list comprehension in its preset list
    pending,     \* the figures the running list comprehension has collected
    figures,     \* the figures the cells have displayed, in display order
    plotted,     \* every figure plot_boxplot has returned, in call order
    failed,      \* the <<section, k>> whose render raised KeyError
    render_log,  \* the <<section, k>> of every call of a plot function
    ui,          \* the widgets and texts the UI cells have displayed
    query,       \* the arguments of the last call of a plot function
    result       \* what that call returned or raised

vars == <<cli_print, rows, missing, pc, print_mode, df, plot_index, k, pending,
          figures, plotted, failed, render_log, ui, query, result>>

(***************************************************************************)
(* Python built-ins on strings                                             *)
(***************************************************************************)
Range(seq) == {seq[i] : i \in 1..Len(seq)}

LowerChars == "abcdefghijklmnopqrstuvwxyzμ"
UpperChars == "ABCDEFGHIJKLMNOPQRSTUVWXYZΜ"
Digits == "0123456789"

\* the characters of s, one string of length 1 each
Chars(s) == [i \in 1..Len(s) |-> SubSeq(s, i, i)]

RECURSIVE Join(_, _, _)
\* "".join(parts[lo..hi])
Join(parts, lo, hi) ==
    IF lo > hi THEN ""
    ELSE IF lo = hi THEN parts[lo]
    ELSE LET mid == (lo + hi) \div 2
         IN  Join(parts, lo, mid) \o Join(parts, mid + 1, hi)

\* the case mappings of single characters; a character without case maps to itself
UpperTable == [c \in Range(Chars(LowerChars)) |->
                  LET i == CHOOSE j \in 1..Len(LowerChars) : SubSeq(LowerChars, j, j) = c
                  IN  SubSeq(UpperChars, i, i)]
LowerTable == [c \in Range(Chars(UpperChars)) |->
                  LET i == CHOOSE j \in 1..Len(UpperChars) : SubSeq(UpperChars, j, j) = c
                  IN  SubSeq(LowerChars, i, i)]

\* str.upper
upper(s) ==
    LET cs == Chars(s)
    IN  Join([i \in 1..Len(s) |-> IF cs[i] \in DOMAIN UpperTable THEN UpperTable[cs[i]] ELSE cs[i]],
             1, Len(s))

\* str.lower
lower(s) ==
    LET cs == Chars(s)
    IN  Join([i \in 1..Len(s) |-> IF cs[i] \in DOMAIN LowerTable THEN LowerTable[cs[i]] ELSE cs[i]],
             1, Len(s))

\* str.replace(old, new) for a one-character old
replace(s, old, new) ==
    LET cs == Chars(s)
    IN  Join([i \in 1..Len(s) |-> IF cs[i] = old THEN new ELSE cs[i]], 1, Len(s))

\* str.capitalize: first character upper case, all the others lower case
capitalize(s) ==
    IF s = "" THEN "" ELSE upper(SubSeq(s, 1, 1)) \o lower(SubSeq(s, 2, Len(s)))

RECURSIVE format(_, _)
\* str.format with one positional argument: a replacement field {} becomes arg
\* (every template of the notebook holds one field)
format(template, arg) ==
    LET at == {i \in 1..(Len(template) - 1) : SubSeq(template, i, i + 1) = "{}"}
    IN  IF at = {} THEN template
        ELSE LET i == CHOOSE j \in at : \A j2 \in at : j <= j2
             IN  SubSeq(template, 1, i - 1) \o arg
                 \o format(SubSeq(template, i + 2, Len(template)), arg)

RECURSIVE str(_)
\* str(n) of an integer n >= 0, as an f-string formats it
str(n) ==
    IF n < 10 THEN SubSeq(Digits, n + 1, n + 1)
    ELSE str(n \div 10) \o SubSeq(Digits, (n % 10) + 1, (n % 10) + 1)

\* Python truth value of the values the print flag takes
Truthy(v) == v \notin {"None", "False", ""}

\* Python `a or b`
PyOr(a, b) == IF Truthy(a) THEN a ELSE b

\* Optional[str]: None is the empty tuple, a string u is <<u>>
None == <<>>
Some(u) == <<u>>

(***************************************************************************)
(* Dictionaries: a dict is the sequence of its items in insertion order    *)
(***************************************************************************)
\* d[key] = value: a key already present keeps its position and takes the new value
dict_put(d, key, value) ==
    IF \E i \in 1..Len(d) : d[i].key = key
    THEN [i \in 1..Len(d) |-> IF d[i].key = key THEN [key |-> key, value |-> value] ELSE d[i]]
    ELSE Append(d, [key |-> key, value |-> value])

RECURSIVE dict_from(_, _, _)
\* {keys[i]: values[i] for i in 1..n}, evaluated left to right
dict_from(keys, values, n) ==
    IF n = 0 THEN <<>> ELSE dict_put(dict_from(keys, values, n - 1), keys[n], values[n])

\* d.keys()
dict_keys(d) == [i \in 1..Len(d) |-> d[i].key]

\* d[key] for a key of d
dict_get(d, key) == (CHOOSE item \in Range(d) : item.key = key).value

(***************************************************************************)
(* Statistics and classes to be plotted                                    *)
(***************************************************************************)
statistic(name, unit) == [name |-> name, unit |-> unit]

tissue_stat_dict ==
    << [key |-> "AREA", value |-> statistic("Area", Some("μm<sup>2</sup>"))],
       [key |-> "REGION_COUNT", value |-> statistic("Region count", None)],
       [key |-> "LARGEST_FILLED_AREA", value |-> statistic("Largest filled area", Some("μm<sup>2</sup>"))],
       [key |-> "AVG_ECCENTRICITY", value |-> statistic("Average eccentricity", None)] >>

cell_stat_dict ==
    << [key |-> "CELL_PERC", value |-> statistic("Percentage of total number of cells", Some("%"))],
       [key |-> "CELL_DENS", value |-> statistic("Density of cells", Some("cells/μm<sup>2</sup>"))],
       [key |-> "CELL_COUNT", value |-> statistic("Cell count", None)] >>

neighborhood_stat_dict ==
    << [key |-> "RATIO", value |-> statistic("Ratio of cells", None)],
       [key |-> "DENSITY", value |-> statistic("Density of cells", Some("cells/μm<sup>2</sup>"))],
       [key |-> "AVG_MIN_DISTANCE", value |-> statistic("Average minimum distance of cells", Some("μm"))] >>

tissue_classes ==
    <<"Carcinoma", "Stroma", "Necrosis", "Blood", "Vessel", "Epithelial tissue", "Other">>

cell_classes ==
    <<"Carcinoma cell", "Lymphocyte", "Macrophage", "Granulocyte", "Plasma cell",
      "Epithelial cell", "Endothelial cell", "Fibroblast", "Other">>

tissue_all == "All tissue types"

\* the two radii of radius_dropdown and of the neighborhood presets
radii == <<20, 40>>

(***************************************************************************)
(* The options of the dropdowns: what .value can be                        *)
(***************************************************************************)
\* dict_to_dropdown: the options map each display name to its key
dict_to_dropdown(dict) == Range(dict_keys(dict))

tissue_stat_dropdown == dict_to_dropdown(tissue_stat_dict)
cell_stat_dropdown == dict_to_dropdown(cell_stat_dict)
nb_stat_dropdown == dict_to_dropdown(neighborhood_stat_dict)
tissue_type_dropdown == ({tissue_all} \cup Range(tissue_classes)) \ {"Necrosis", "Blood"}
cell_class_a_dropdown == Range(cell_classes)
roi_dropdown == Range(tissue_classes) \ {"Necrosis", "Blood"}
radius_dropdown == Range(radii)

(***************************************************************************)
(* print_mode and the presets of print mode                                *)
(***************************************************************************)
\* print_mode = mo.cli_args().get("print") or True
print_mode_of(flag) == PyOr(flag, "True")

\* the neighborhood presets with the two loops exchanged
neighborhood_settings_statistic_outer ==
    LET keys == dict_keys(neighborhood_stat_dict)
        n == Len(radii)
    IN  [i \in 1..(Len(keys) * n) |->
            [cell_class_a |-> "Carcinoma cell", roi |-> "Carcinoma",
             statistic |-> keys[((i - 1) \div n) + 1],
             radius |-> radii[((i - 1) % n) + 1]]]

\* [... for radius in [20, 40] for statistic in neighborhood_stat_dict.keys()]
neighborhood_settings ==
    LET keys == dict_keys(neighborhood_stat_dict)
        n == Len(keys)
    IN  [i \in 1..(Len(radii) * n) |->
            [cell_class_a |-> "Carcinoma cell", roi |-> "Carcinoma",
             statistic |-> keys[((i - 1) % n) + 1],
             radius |-> radii[((i - 1) \div n) + 1]]]

print_mode_graph_settings ==
    [tissue |-> << [statistic |-> "AREA"] >>,
     cell |-> << [statistic |-> "CELL_PERC", tissue_type |-> tissue_all],
                 [statistic |-> "CELL_DENS", tissue_type |-> "Carcinoma"],
                 [statistic |-> "CELL_DENS", tissue_type |-> "Stroma"] >>,
     neighborhood |-> neighborhood_settings]

(***************************************************************************)
(* The readout table                                                       *)
(***************************************************************************)
\* df[keys] with every missing column dropped instead of raising
df_getitem_existing_only(keys, absent) ==
    [error |-> "", columns |-> SelectSeq(keys, LAMBDA c : c \notin absent)]

\* df[keys]: the columns in the order of keys; KeyError when any of them is missing
df_getitem(keys, absent) ==
    IF \E i \in 1..Len(keys) : keys[i] \in absent
    THEN [error |-> "KeyError", columns |-> <<>>]
    ELSE [error |-> "", columns |-> keys]

\* .rename(columns=cols) followed by melt: one box per column, named by its label
rename(columns, cols) == [i \in 1..Len(columns) |-> dict_get(cols, columns[i])]

\* load_readouts_data with pd.read_csv returning the rows of the file
load_readouts_data(csv_rows) ==
    LET frame == csv_rows
        n_initial == Len(frame)
    IN  IF n_initial = Len(frame)
        THEN [raised |-> FALSE, df |-> [loaded |-> TRUE, rows |-> frame]]
        ELSE [raised |-> TRUE, df |-> [loaded |-> FALSE, rows |-> <<>>]]

(***************************************************************************)
(* to_allcaps and plot_boxplot                                             *)
(***************************************************************************)
to_allcaps(cls) == replace(upper(cls), " ", "_")

\* the y-axis label with the unit appended whether or not there is one
y_axis_label_always_unit(stat) ==
    capitalize(stat.name) \o " (" \o (IF stat.unit # None THEN stat.unit[1] ELSE "None") \o ")"

\* y_label of plot_boxplot
y_axis_label(stat) ==
    LET y_label == capitalize(stat.name)
    IN  IF stat.unit # None THEN y_label \o " (" \o stat.unit[1] \o ")" ELSE y_label

NoFig == [title |-> "", xaxis |-> "", yaxis |-> "", boxes |-> <<>>]

\* plot_boxplot without the increment of plot_index
plot_boxplot_no_increment(boxes, variable, stat, title, subtitle, pm, idx) ==
    LET t0 == capitalize("Distribution of " \o title)
        t1 == IF subtitle # "" THEN t0 \o "<br><sub>Data from column(s): " \o subtitle \o "</sub>" ELSE t0
        t2 == IF Truthy(pm) THEN str(idx) \o ". " \o t1 ELSE t1
    IN  [fig |-> [title |-> t2, xaxis |-> capitalize(variable), yaxis |-> y_axis_label(stat),
                  boxes |-> boxes],
         plot_index |-> idx]

\* plot_boxplot: pm is print_mode, idx the global plot_index before the call;
\* returns the figure and plot_index after the call
plot_boxplot(boxes, variable, stat, title, subtitle, pm, idx) ==
    LET t0 == capitalize("Distribution of " \o title)
        t1 == IF subtitle # "" THEN t0 \o "<br><sub>Data from column(s): " \o subtitle \o "</sub>" ELSE t0
        t2 == IF Truthy(pm) THEN str(idx) \o ". " \o t1 ELSE t1
    IN  [fig |-> [title |-> t2, xaxis |-> capitalize(variable), yaxis |-> y_axis_label(stat),
                  boxes |-> boxes],
         plot_index |-> IF Truthy(pm) THEN idx + 1 ELSE idx]

\* what a plot function hands back: the figure, or the KeyError of the column lookup
Returned(cols, template, plot) ==
    [error |-> "", columns |-> cols, template |-> template, fig |-> plot.fig,
     plot_index |-> plot.plot_index]
Raised(cols, template, idx) ==
    [error |-> "KeyError", columns |-> cols, template |-> template, fig |-> NoFig,
     plot_index |-> idx]

(***************************************************************************)
(* The three plot functions.  absent is the set of columns df lacks.       *)
(***************************************************************************)
\* the end of a plot function with plot_boxplot called before the column lookup
lookup_and_plot_plot_first(cols, template, variable, stat, title, pm, idx, absent) ==
    LET plot == plot_boxplot(rename(dict_keys(cols), cols), variable, stat, title, template,
                             pm, idx)
        sub == df_getitem(dict_keys(cols), absent)
    IN  IF sub.error # "" THEN Raised(cols, template, plot.plot_index)
        ELSE Returned(cols, template, plot)

\* the end of each plot function: _df = df[cols.keys()].rename(columns=cols), then
\* return plot_boxplot(_df, ...); the KeyError of the lookup leaves the function
lookup_and_plot(cols, template, variable, stat, title, pm, idx, absent) ==
    LET sub == df_getitem(dict_keys(cols), absent)
    IN  IF sub.error # "" THEN Raised(cols, template, idx)
        ELSE Returned(cols, template,
                      plot_boxplot(rename(sub.columns, cols), variable, stat, title, template,
                                   pm, idx))

\* {template.format(to_allcaps(cls)): cls for cls in classes}
format_columns(template, classes) ==
    dict_from([i \in 1..Len(classes) |-> format(template, to_allcaps(classes[i]))],
              classes, Len(classes))

plot_tissue_areas(stat_code, pm, idx, absent) ==
    LET column_format == stat_code \o "_{}"
        stat == dict_get(tissue_stat_dict, stat_code)
        title == stat.name \o " of a specific tissue type per slide"
    IN  lookup_and_plot(format_columns(column_format, tissue_classes), column_format,
                        "tissue type", stat, title, pm, idx, absent)

\* column_format with the tissue suffix for "All tissue types" too
cell_column_format_always_suffix(stat_code, tissue_type) ==
    stat_code \o "_{}_" \o to_allcaps(tissue_type)

\* column_format without the placeholder of the cell class
cell_column_format_no_placeholder(stat_code, tissue_type) ==
    IF tissue_type = tissue_all THEN stat_code \o "_"
    ELSE stat_code \o "_" \o to_allcaps(tissue_type)

\* column_format of plot_cell_stat
cell_column_format(stat_code, tissue_type) ==
    IF tissue_type = tissue_all THEN stat_code \o "_{}"
    ELSE stat_code \o "_{}_" \o to_allcaps(tissue_type)

plot_cell_stat(tissue_type, stat_code, pm, idx, absent) ==
    LET stat == dict_get(cell_stat_dict, stat_code)
        column_format == cell_column_format(stat_code, tissue_type)
        title == IF tissue_type = tissue_all
                 THEN stat.name \o " of a specific class per slide"
                 ELSE stat.name \o " of a specific class within " \o tissue_type
                      \o " area per slide"
    IN  lookup_and_plot(format_columns(column_format, cell_classes), column_format,
                        "cell class", stat, title, pm, idx, absent)

\* column without the outer to_allcaps
neighborhood_column_as_written(cell_class_a, roi, stat_code, radius) ==
    stat_code \o "_OF_{}S_AROUND_" \o cell_class_a \o "_IN_" \o roi \o "_" \o str(radius)

\* column of plot_neighborhood_stat
neighborhood_column(cell_class_a, roi, stat_code, radius) ==
    to_allcaps(stat_code \o "_OF_{}S_AROUND_" \o cell_class_a \o "_IN_" \o roi \o "_"
               \o str(radius))

\* {to_allcaps(column.format(cell_class_b)): cell_class_b for cell_class_b in classes}
columns_to_labels(column, classes) ==
    dict_from([i \in 1..Len(classes) |-> to_allcaps(format(column, classes[i]))],
              classes, Len(classes))

plot_neighborhood_stat(cell_class_a, roi, stat_code, radius, pm, idx, absent) ==
    LET stat == dict_get(neighborhood_stat_dict, stat_code)
        column == neighborhood_column(cell_class_a, roi, stat_code, radius)
        title == stat.name \o " of a specific class in a " \o str(radius)
                 \o " μm radius of<br>" \o cell_class_a \o "s within " \o roi
                 \o " area per slide"
    IN  lookup_and_plot(columns_to_labels(column, cell_classes), column, "cell class", stat,
                        title, pm, idx, absent)

(***************************************************************************)
(* Inputs of a session                                                     *)
(***************************************************************************)
MaxRows == 2
MaxMissing == 2

\* what mo.cli_args().get("print") can be: None when absent, or the value given
CliPrintValues == {"None", "False", "True"}

Slides == {"slide-1", "slide-2"}

\* columns a readout file may lack: one of each preset group and one no preset reads
AbsentCandidates ==
    {"AREA_STROMA",
     "CELL_PERC_LYMPHOCYTE",
     "CELL_DENS_MACROPHAGE_CARCINOMA",
     "CELL_DENS_OTHER_STROMA",
     "RATIO_OF_LYMPHOCYTES_AROUND_CARCINOMA_CELL_IN_CARCINOMA_20",
     "DENSITY_OF_FIBROBLASTS_AROUND_CARCINOMA_CELL_IN_CARCINOMA_40",
     "CELL_COUNT_OTHER"}

NoQuery ==
    [kind |-> "", statistic |-> "", tissue_type |-> "", cell_class_a |-> "", roi |-> "",
     radius |-> 0]
NoResult ==
    [error |-> "", columns |-> <<>>, template |-> "", fig |-> NoFig, plot_index |-> 0]

TissueQuery(stat_code) == [NoQuery EXCEPT !.kind = "tissue", !.statistic = stat_code]
CellQuery(tissue_type, stat_code) ==
    [NoQuery EXCEPT !.kind = "cell", !.statistic = stat_code, !.tissue_type = tissue_type]
NeighborhoodQuery(cell_class_a, roi, stat_code, radius) ==
    [NoQuery EXCEPT !.kind = "neighborhood", !.statistic = stat_code,
                    !.cell_class_a = cell_class_a, !.roi = roi, !.radius = radius]

(***************************************************************************)
(* A session: marimo runs the cells in the order of their dependencies,    *)
(* cells that do not depend on each other in the order of the file         *)
(***************************************************************************)
Init ==
    /\ cli_print \in CliPrintValues
    /\ rows \in UNION {[1..n -> Slides] : n \in 0..MaxRows}
    /\ missing \in {m \in SUBSET AbsentCandidates : Cardinality(m) <= MaxMissing}
    /\ pc = "print_mode"
    /\ print_mode = "None"
    /\ df = [loaded |-> FALSE, rows |-> <<>>]
    /\ plot_index = 0
    /\ k = 1
    /\ pending = <<>>
    /\ figures = <<>>
    /\ plotted = <<>>
    /\ failed = {}
    /\ render_log = <<>>
    /\ ui = {}
    /\ query = NoQuery
    /\ result = NoResult

\* the first cell: print_mode (print_mode_graph_settings is a constant of the model)
cell_print_mode ==
    /\ pc = "print_mode"
    /\ print_mode' = print_mode_of(cli_print)
    /\ pc' = "load"
    /\ UNCHANGED <<cli_print, rows, missing, df, plot_index, k, pending, figures, plotted,
                   failed, render_log, ui, query, result>>

\* df = load_readouts_data(); a failed assert leaves df unbound
cell_load ==
    /\ pc = "load"
    /\ df' = load_readouts_data(rows).df
    /\ pc' = "defs"
    /\ UNCHANGED <<cli_print, rows, missing, print_mode, plot_index, k, pending, figures,
                   plotted, failed, render_log, ui, query, result>>

\* the cell of to_allcaps and plot_boxplot: plot_index = 1
cell_defs ==
    /\ pc = "defs"
    /\ plot_index' = 1
    /\ pc' = "tissue_ui"
    /\ UNCHANGED <<cli_print, rows, missing, print_mode, df, k, pending, figures, plotted,
                   failed, render_log, ui, query, result>>

\* a UI cell: the text always, the dropdowns only outside print mode
RenderUi(at, text, dropdowns, next) ==
    /\ pc = at
    /\ ui' = ui \cup (IF Truthy(print_mode) THEN text ELSE text \cup dropdowns)
    /\ pc' = next
    /\ UNCHANGED <<cli_print, rows, missing, print_mode, df, plot_index, k, pending, figures,
                   plotted, failed, render_log, query, result>>

render_tissue_ui_elements ==
    RenderUi("tissue_ui", {"text:tissue"}, {"tissue_stat_dropdown"}, "tissue")

render_cc_and_ts_ui_elements ==
    RenderUi("cell_ui",
             IF Truthy(print_mode) THEN {"text:cell", "print_mode_text:cell"}
             ELSE {"text:cell", "dropdown_text:cell"},
             {"tissue_type_dropdown", "cell_stat_dropdown"}, "cell")

render_ui_elements ==
    RenderUi("nb_ui",
             IF Truthy(print_mode) THEN {"text:neighborhood", "print_mode_text:neighborhood"}
             ELSE {"text:neighborhood", "text_dropdowns:neighborhood"},
             {"cell_class_a_dropdown", "roi_dropdown", "nb_stat_dropdown", "radius_dropdown"},
             "nb")

\* print mode: the k-th iteration of mo.vstack([plot(**kwargs) for kwargs in presets]);
\* a KeyError ends the cell without output, the last iteration displays the list
Comprehend(section, q, r, n, next) ==
        /\ query' = q
        /\ result' = r
        /\ render_log' = Append(render_log, <<section, k>>)
        /\ plot_index' = r.plot_index
        /\ IF r.error # ""
           THEN /\ failed' = failed \cup {<<section, k>>}
                /\ pending' = <<>>
                /\ k' = 1
                /\ pc' = next
                /\ UNCHANGED <<figures, plotted>>
           ELSE /\ plotted' = Append(plotted, r.fig)
                /\ failed' = failed
                /\ IF k < n
                   THEN /\ pending' = Append(pending, r.fig)
                        /\ k' = k + 1
                        /\ UNCHANGED <<pc, figures>>
                   ELSE /\ figures' = figures \o Append(pending, r.fig)
                        /\ pending' = <<>>
                        /\ k' = 1
                        /\ pc' = next

\* widget mode: one plot from the values the dropdowns hold
Single(section, q, r, next) ==
        /\ query' = q
        /\ result' = r
        /\ render_log' = Append(render_log, <<section, 0>>)
        /\ plot_index' = r.plot_index
        /\ pc' = next
        /\ UNCHANGED <<k, pending>>
        /\ IF r.error # ""
           THEN /\ failed' = failed \cup {<<section, 0>>}
                /\ UNCHANGED <<figures, plotted>>
           ELSE /\ plotted' = Append(plotted, r.fig)
                /\ figures' = Append(figures, r.fig)
                /\ failed' = failed

\* a cell whose argument df is unbound does not run
Skip(next) ==
    /\ pc' = next
    /\ UNCHANGED <<plot_index, k, pending, figures, plotted, failed, render_log, query, result>>

display_tissue_graph ==
    /\ pc = "tissue"
    /\ UNCHANGED <<cli_print, rows, missing, print_mode, df, ui>>
    /\ IF ~df.loaded THEN Skip("cell_ui")
       ELSE IF Truthy(print_mode)
       THEN LET kwargs == print_mode_graph_settings.tissue[k]
            IN  Comprehend("tissue", TissueQuery(kwargs.statistic),
                           plot_tissue_areas(kwargs.statistic, print_mode, plot_index, missing),
                           Len(print_mode_graph_settings.tissue), "cell_ui")
       ELSE \E stat_code \in tissue_stat_dropdown :
                Single("tissue", TissueQuery(stat_code),
                       plot_tissue_areas(stat_code, print_mode, plot_index, missing), "cell_ui")

display_cell_graphs ==
    /\ pc = "cell"
    /\ UNCHANGED <<cli_print, rows, missing, print_mode, df, ui>>
    /\ IF ~df.loaded THEN Skip("nb_ui")
       ELSE IF Truthy(print_mode)
       THEN LET kwargs == print_mode_graph_settings.cell[k]
            IN  Comprehend("cell", CellQuery(kwargs.tissue_type, kwargs.statistic),
                           plot_cell_stat(kwargs.tissue_type, kwargs.statistic, print_mode,
                                          plot_index, missing),
                           Len(print_mode_graph_settings.cell), "nb_ui")
       ELSE \E tissue \in tissue_type_dropdown, stat_code \in cell_stat_dropdown :
                Single("cell", CellQuery(tissue, stat_code),
                       plot_cell_stat(tissue, stat_code, print_mode, plot_index, missing),
                       "nb_ui")

display_neighbourbood_graphs ==
    /\ pc = "nb"
    /\ UNCHANGED <<cli_print, rows, missing, print_mode, df, ui>>
    /\ IF ~df.loaded THEN Skip("done")
       ELSE IF Truthy(print_mode)
       THEN LET kwargs == print_mode_graph_settings.neighborhood[k]
            IN  Comprehend("neighborhood",
                           NeighborhoodQuery(kwargs.cell_class_a, kwargs.roi,
                                             kwargs.statistic, kwargs.radius),
                           plot_neighborhood_stat(kwargs.cell_class_a, kwargs.roi,
                                                  kwargs.statistic, kwargs.radius,
                                                  print_mode, plot_index, missing),
                           Len(print_mode_graph_settings.neighborhood), "done")
       ELSE \E cell_class_a \in cell_class_a_dropdown, roi \in roi_dropdown,
               stat_code \in nb_stat_dropdown, radius \in radius_dropdown :
                Single("neighborhood",
                       NeighborhoodQuery(cell_class_a, roi, stat_code, radius),
                       plot_neighborhood_stat(cell_class_a, roi, stat_code, radius,
                                              print_mode, plot_index, missing), "done")

Next ==
    \/ cell_print_mode
    \/ cell_load
    \/ cell_defs
    \/ render_tissue_ui_elements
    \/ display_tissue_graph
    \/ render_cc_and_ts_ui_elements
    \/ display_cell_graphs
    \/ render_ui_elements
    \/ display_neighbourbood_graphs

Spec == Init /\ [][Next]_vars

(***************************************************************************)
(* The plot functions on their own: one call with any selection the        *)
(* dropdowns offer, with print_mode either way, on a table with every      *)
(* column                                                                  *)
(***************************************************************************)
Queries ==
    {TissueQuery(s) : s \in tissue_stat_dropdown}
    \cup {CellQuery(t, s) : t \in tissue_type_dropdown, s \in cell_stat_dropdown}
    \cup {NeighborhoodQuery(a, r, s, d) : a \in cell_class_a_dropdown, r \in roi_dropdown,
                                          s \in nb_stat_dropdown, d \in radius_dropdown}

InitPlot ==
    /\ cli_print = "None"
    /\ rows = <<>>
    /\ missing = {}
    /\ pc = "call"
    /\ print_mode \in {"True", "False"}
    /\ df = [loaded |-> TRUE, rows |-> <<>>]
    /\ plot_index = 1
    /\ k = 1
    /\ pending = <<>>
    /\ figures = <<>>
    /\ plotted = <<>>
    /\ failed = {}
    /\ render_log = <<>>
    /\ ui = {}
    /\ query \in Queries
    /\ result = NoResult

call_plot_tissue_areas ==
    /\ pc = "call"
    /\ query.kind = "tissue"
    /\ Single("tissue", query,
              plot_tissue_areas(query.statistic, print_mode, plot_index, missing), "returned")
    /\ UNCHANGED <<cli_print, rows, missing, print_mode, df, ui>>

call_plot_cell_stat ==
    /\ pc = "call"
    /\ query.kind = "cell"
    /\ Single("cell", query,
              plot_cell_stat(query.tissue_type, query.statistic, print_mode, plot_index,
                             missing), "returned")
    /\ UNCHANGED <<cli_print, rows, missing, print_mode, df, ui>>

call_plot_neighborhood_stat ==
    /\ pc = "call"
    /\ query.kind = "neighborhood"
    /\ Single("neighborhood", query,
              plot_neighborhood_stat(query.cell_class_a, query.roi, query.statistic,
                                     query.radius, print_mode, plot_index, missing),
              "returned")
    /\ UNCHANGED <<cli_print, rows, missing, print_mode, df, ui>>

NextPlot ==
    \/ call_plot_tissue_areas
    \/ call_plot_cell_stat
    \/ call_plot_neighborhood_stat

SpecPlot == InitPlot /\ [][NextPlot]_vars

(***************************************************************************)
(* Properties                                                              *)
(***************************************************************************)
Last(seq) == seq[Len(seq)]

RECURSIVE LeadingNumber(_, _, _)
\* the decimal number the characters cs start with, from position i on
LeadingNumber(cs, i, acc) ==
    IF i <= Len(cs) /\ cs[i] \in Range(Chars(Digits))
    THEN LeadingNumber(cs, i + 1,
                       acc * 10 + (CHOOSE d \in 0..9 : SubSeq(Digits, d + 1, d + 1) = cs[i]))
    ELSE acc

\* the figure number a title starts with ("12. Distribution ..." gives 12); 0 when the
\* title does not start with a number followed by ". "
TitleNumber(title) ==
    LET cs == Chars(title)
        n == LeadingNumber(cs, 1, 0)
    IN  IF n > 0 /\ SubSeq(title, Len(str(n)) + 1, Len(str(n)) + 2) = ". " THEN n ELSE 0

Titles(figs) == [i \in 1..Len(figs) |-> figs[i].title]

AllDropdowns ==
    {"tissue_stat_dropdown", "tissue_type_dropdown", "cell_stat_dropdown",
     "cell_class_a_dropdown", "roi_dropdown", "nb_stat_dropdown", "radius_dropdown"}

\* the titles of the ten figures of print mode, as the notebook exports them
ExpectedTitles ==
    << "1. Distribution of area of a specific tissue type per slide<br><sub>Data from column(s): AREA_{}</sub>",
       "2. Distribution of percentage of total number of cells of a specific class per slide<br><sub>Data from column(s): CELL_PERC_{}</sub>",
       "3. Distribution of density of cells of a specific class within carcinoma area per slide<br><sub>Data from column(s): CELL_DENS_{}_CARCINOMA</sub>",
       "4. Distribution of density of cells of a specific class within stroma area per slide<br><sub>Data from column(s): CELL_DENS_{}_STROMA</sub>",
       "5. Distribution of ratio of cells of a specific class in a 20 μm radius of<br>carcinoma cells within carcinoma area per slide<br><sub>Data from column(s): RATIO_OF_{}S_AROUND_CARCINOMA_CELL_IN_CARCINOMA_20</sub>",
       "6. Distribution of density of cells of a specific class in a 20 μm radius of<br>carcinoma cells within carcinoma area per slide<br><sub>Data from column(s): DENSITY_OF_{}S_AROUND_CARCINOMA_CELL_IN_CARCINOMA_20</sub>",
       "7. Distribution of average minimum distance of cells of a specific class in a 20 μm radius of<br>carcinoma cells within carcinoma area per slide<br><sub>Data from column(s): AVG_MIN_DISTANCE_OF_{}S_AROUND_CARCINOMA_CELL_IN_CARCINOMA_20</sub>",
       "8. Distribution of ratio of cells of a specific class in a 40 μm radius of<br>carcinoma cells within carcinoma area per slide<br><sub>Data from column(s): RATIO_OF_{}S_AROUND_CARCINOMA_CELL_IN_CARCINOMA_40</sub>",
       "9. Distribution of density of cells of a specific class in a 40 μm radius of<br>carcinoma cells within carcinoma area per slide<br><sub>Data from column(s): DENSITY_OF_{}S_AROUND_CARCINOMA_CELL_IN_CARCINOMA_40</sub>",
       "10. Distribution of average minimum distance of cells of a specific class in a 40 μm radius of<br>carcinoma cells within carcinoma area per slide<br><sub>Data from column(s): AVG_MIN_DISTANCE_OF_{}S_AROUND_CARCINOMA_CELL_IN_CARCINOMA_40</sub>" >>

\* the columns among AbsentCandidates that no preset of print mode reads
ColumnsNoPresetReads == {"CELL_COUNT_OTHER"}

\* C1: a print-mode session on a table that has every column the presets read renders
\* every preset and ends with exactly the ten figures of the preset list on display,
\* numbered 1..10 in preset order: tissue AREA is 1,
\* CELL_PERC/All tissue types 2, CELL_DENS/Carcinoma 3, CELL_DENS/Stroma 4, and the
\* neighborhood figures 5-7 (radius 20) and 8-10 (radius 40), each RATIO, DENSITY,
\* AVG_MIN_DISTANCE.  The print branch reads no dropdown, so this holds whatever they hold.
C1_BatchFiguresNumberedInPresetOrder ==
    (pc = "done" /\ Truthy(print_mode) /\ missing \subseteq ColumnsNoPresetReads) =>
        /\ failed = {}
        /\ Len(figures) = 10
        /\ Titles(figures) = ExpectedTitles
        /\ \A i \in 1..Len(figures) : TitleNumber(figures[i].title) = i

C1_Witness ==
    /\ pc = "done"
    /\ Truthy(print_mode)
    /\ missing = ColumnsNoPresetReads
    /\ Len(figures) = 10
    /\ TitleNumber(figures[10].title) = 10

\* C2: the print flag selects the mode: with the flag absent or false the session is in
\* widget mode (print_mode false, every dropdown displayed, no figure index in a title),
\* with the flag set it is in print mode.
C2_PrintFlagSelectsMode ==
    /\ (pc # "print_mode") => (Truthy(print_mode) <=> Truthy(cli_print))
    /\ (pc = "done" /\ ~Truthy(cli_print)) =>
           /\ AllDropdowns \subseteq ui
           /\ \A i \in 1..Len(figures) : TitleNumber(figures[i].title) = 0

HasDuplicateSlide(rs) == \E i, j \in 1..Len(rs) : i # j /\ rs[i] = rs[j]

\* C3: a file in which a slide has more than one row fails the load: df is never bound
\* and no plot is ever made from it.
C3_DuplicateSlidesAbortStartup ==
    HasDuplicateSlide(rows) => (~df.loaded /\ plotted = <<>> /\ figures = <<>>)

\* C4: the mapping a plot function builds has exactly one constructed column name per
\* category of its enumeration (tissue classes for plot_tissue_areas, cell classes for
\* the other two), in the order of the enumeration, and no two categories share a name.
C4_OneColumnPerCategoryBijection ==
    (pc = "returned") =>
        LET cols == result.columns
            classes == IF query.kind = "tissue" THEN tissue_classes ELSE cell_classes
        IN  /\ Len(cols) = Len(classes)
            /\ \A i \in 1..Len(cols) : cols[i].value = classes[i]
            /\ \A i, j \in 1..Len(cols) :
                   i # j => (cols[i].key # cols[j].key /\ cols[i].value # cols[j].value)

C4_Witness ==
    /\ pc = "returned"
    /\ query.kind = "neighborhood"
    /\ query.roi = "Epithelial tissue"
    /\ Len(result.columns) = 9
    /\ Cardinality(Range(dict_keys(result.columns))) = 9

\* the upper-case, underscore-joined form of every cell class and tissue type
AllcapsOfCellClasses ==
    <<"CARCINOMA_CELL", "LYMPHOCYTE", "MACROPHAGE", "GRANULOCYTE", "PLASMA_CELL",
      "EPITHELIAL_CELL", "ENDOTHELIAL_CELL", "FIBROBLAST", "OTHER">>
AllcapsOfTissue(t) ==
    CASE t = "Carcinoma" -> "CARCINOMA"
      [] t = "Stroma" -> "STROMA"
      [] t = "Vessel" -> "VESSEL"
      [] t = "Epithelial tissue" -> "EPITHELIAL_TISSUE"
      [] t = "Other" -> "OTHER"

\* C5: plot_cell_stat maps (S, T) to {S_ALLCAPS(c): c} for T = "All tissue types" and to
\* {S_ALLCAPS(c)_ALLCAPS(T): c} for every other T, the values being the labels as written;
\* ("CELL_DENS", "All tissue types") maps CELL_DENS_CARCINOMA_CELL to "Carcinoma cell" and
\* CELL_DENS_LYMPHOCYTE to "Lymphocyte".
C5_CellColumnsOmitAllTissueSuffix ==
    (pc = "returned" /\ query.kind = "cell") =>
        LET S == query.statistic
            T == query.tissue_type
        IN  /\ result.columns =
                   [i \in 1..Len(cell_classes) |->
                       [key |-> IF T = tissue_all THEN S \o "_" \o AllcapsOfCellClasses[i]
                                ELSE S \o "_" \o AllcapsOfCellClasses[i] \o "_"
                                     \o AllcapsOfTissue(T),
                        value |-> cell_classes[i]]]
            /\ (S = "CELL_DENS" /\ T = tissue_all) =>
                   /\ result.columns[1] = [key |-> "CELL_DENS_CARCINOMA_CELL",
                                           value |-> "Carcinoma cell"]
                   /\ result.columns[2] = [key |-> "CELL_DENS_LYMPHOCYTE",
                                           value |-> "Lymphocyte"]

C5_Witness ==
    /\ pc = "returned"
    /\ query.kind = "cell"
    /\ query.statistic = "CELL_PERC"
    /\ query.tissue_type = tissue_all
    /\ result.columns[5].key = "CELL_PERC_PLASMA_CELL"

\* C6: for every item (constructed name, label) of the mapping a plot function built,
\* to_allcaps of the label put into the function's column template is the constructed name.
C6_LabelRoundTrip ==
    (pc = "returned") =>
        \A i \in 1..Len(result.columns) :
            format(result.template, to_allcaps(result.columns[i].value))
                = result.columns[i].key

C6_Witness ==
    /\ pc = "returned"
    /\ query.kind = "neighborhood"
    /\ query.cell_class_a = "Plasma cell"
    /\ query.roi = "Epithelial tissue"
    /\ result.columns[7].value = "Endothelial cell"
    /\ result.columns[7].key
           = "RATIO_OF_ENDOTHELIAL_CELLS_AROUND_PLASMA_CELL_IN_EPITHELIAL_TISSUE_40"

\* C7: a call of a plot function of which a constructed column is missing from the table
\* raises KeyError: it returns no figure, nothing is added to the figures made or
\* displayed, the figures its cell had collected are dropped, and the same preset is not
\* called again; a displayed figure always has a box for every category.
C7_MissingColumnFailsRender ==
    /\ [][(render_log' # render_log
             /\ Range(dict_keys(result'.columns)) \cap missing # {}) =>
            /\ result'.error = "KeyError"
            /\ result'.fig = NoFig
            /\ plotted' = plotted
            /\ figures' = figures
            /\ pending' = <<>>
            /\ Last(render_log') \in failed'
            /\ Last(render_log') \notin Range(render_log)]_vars
    /\ [](\A i \in 1..Len(figures) : Len(figures[i].boxes) \in {Len(tissue_classes), Len(cell_classes)})

C7_Witness ==
    /\ result.error = "KeyError"
    /\ query.kind = "cell"
    /\ query.tissue_type = "Carcinoma"
    /\ "CELL_DENS_MACROPHAGE_CARCINOMA" \in missing
    /\ <<"cell", 2>> \in failed
    /\ Len(figures) = 1

\* the y-axis label of every statistic of the three catalogs
ExpectedYLabel(kind, stat_code) ==
    CASE kind = "tissue" /\ stat_code = "AREA" -> "Area (μm<sup>2</sup>)"
      [] kind = "tissue" /\ stat_code = "REGION_COUNT" -> "Region count"
      [] kind = "tissue" /\ stat_code = "LARGEST_FILLED_AREA" -> "Largest filled area (μm<sup>2</sup>)"
      [] kind = "tissue" /\ stat_code = "AVG_ECCENTRICITY" -> "Average eccentricity"
      [] kind = "cell" /\ stat_code = "CELL_PERC" -> "Percentage of total number of cells (%)"
      [] kind = "cell" /\ stat_code = "CELL_DENS" -> "Density of cells (cells/μm<sup>2</sup>)"
      [] kind = "cell" /\ stat_code = "CELL_COUNT" -> "Cell count"
      [] kind = "neighborhood" /\ stat_code = "RATIO" -> "Ratio of cells"
      [] kind = "neighborhood" /\ stat_code = "DENSITY" -> "Density of cells (cells/μm<sup>2</sup>)"
      [] kind = "neighborhood" /\ stat_code = "AVG_MIN_DISTANCE" -> "Average minimum distance of cells (μm)"

CatalogOf(kind) ==
    IF kind = "tissue" THEN tissue_stat_dict
    ELSE IF kind = "cell" THEN cell_stat_dict ELSE neighborhood_stat_dict

\* C8: the y-axis label of a figure is the display name of its statistic followed by
\* " (unit)" when the statistic has a unit, and the display name alone when the unit is None.
C8_YAxisLabelFromNameAndUnit ==
    (pc = "returned") =>
        LET stat == dict_get(CatalogOf(query.kind), query.statistic)
        IN  /\ result.fig.yaxis = ExpectedYLabel(query.kind, query.statistic)
            /\ result.fig.yaxis = IF stat.unit # None
                                  THEN stat.name \o " (" \o stat.unit[1] \o ")"
                                  ELSE stat.name

C8_Witness ==
    /\ pc = "returned"
    /\ query.statistic = "CELL_PERC"
    /\ result.fig.yaxis = "Percentage of total number of cells (%)"

\* C9: plot_index is 1 when the cell of plot_boxplot has run and, from then on, 1 plus the
\* number of figures plot_boxplot has returned, whichever section called it; the i-th
\* figure returned carries the number i; no step decreases plot_index, and a step that
\* returns a figure puts the value plot_index had into its title and adds exactly 1.
C9_FigureIndexCountsPlots ==
    /\ [](pc \notin {"print_mode", "load", "defs"} =>
            /\ plot_index = Len(plotted) + 1
            /\ \A i \in 1..Len(plotted) : TitleNumber(plotted[i].title) = i
            /\ \A i, j \in 1..Len(figures) :
                   i < j => TitleNumber(figures[i].title) < TitleNumber(figures[j].title))
    /\ [][/\ plot_index' >= plot_index
          /\ (plotted' # plotted) =>
                 /\ plot_index' = plot_index + 1
                 /\ TitleNumber(Last(plotted').title) = plot_index]_vars

C9_Witness ==
    /\ pc = "done"
    /\ Len(plotted) = 10
    /\ plot_index = 11
    /\ \E i, j \in 1..10 :
           /\ plotted[i].xaxis = "Tissue type"
           /\ plotted[j].xaxis = "Cell class"
           /\ TitleNumber(plotted[i].title) + 1 = TitleNumber(plotted[j].title)

\* C10: a step in which a render fails on a missing column leaves plot_index as it was,
\* namely 1 plus the number of figures plot_boxplot had returned before it.
C10_FailedRenderKeepsIndex ==
    [][(failed' # failed) =>
          /\ plot_index' = plot_index
          /\ plot_index' = Len(plotted') + 1
          /\ plotted' = plotted]_vars

C10_Witness ==
    /\ result.error = "KeyError"
    /\ query.kind = "neighborhood"
    /\ Len(plotted) = 4
    /\ plot_index = 5

====
